---- MODULE Spec2Model ----
(***************************************************************************)
(* Debounced autosave of src/app/static/shift_detail.js.                   *)
(*                                                                         *)
(* Every ".autosave-form" owns a closure variable timeoutId and one        *)
(* listener, scheduleSave, registered for "input" and for "change".        *)
(* The browser is modelled by its timer table (timers, nextHandle), its    *)
(* clock (now, in milliseconds) and the network (requests).  A timer       *)
(* callback becomes due exactly Delay ms after setTimeout; while a         *)
(* callback is due the clock does not move, but the event loop may still   *)
(* run an event handler of any form ahead of it.                           *)
(*                                                                         *)
(* trace, declHist and the fields "seen", "timer", "at" and "done" of       *)
(* timers and requests are history state: the program never reads them.    *)
(*                                                                         *)
(* Spec is a page with one form, whose data-save-url and field a script    *)
(* may change at any time; SpecForms is a page with two forms that keep    *)
(* the endpoints they declare.                                             *)
(***************************************************************************)
EXTENDS Integers, Sequences, FiniteSets

\* ---- bounds of the model -------------------------------------------------
MaxEvents == 2      \* input/change events dispatched in a run
MaxEdits  == 1      \* attribute / field changes made without an event
MaxTicks  == 4      \* horizon of the clock, in ticks

\* ---- program constants ---------------------------------------------------
Delay == 800        \* setTimeout(..., 800)
Null  == 0          \* let timeoutId = null (timer handles are positive)

\* granularity of the clock: events fall inside, at the end of, or beyond a quiet period
Tick == Delay \div 2

MaxTime == MaxTicks * Tick

AllForms == {1, 2}  \* the elements a page may mark ".autosave-form"

AttrValues == {"", "/save/42"}
ScriptValues == {"x"}

VARIABLES
    autosaveForms, \* document.querySelectorAll(".autosave-form"), fixed at load
    now,         \* clock, ms
    dataset,     \* dataset[f]: the form's data-* attributes (a function on a subset of {"saveUrl"})
    fields,      \* fields[f]: current value of the form's field
    timeoutId,   \* timeoutId[f]: the closure variable of form f
    timers,      \* browser timer table: pending timers
    nextHandle,  \* next handle window.setTimeout returns
    requests,    \* every fetch issued, in order, with its state
    unhandled,   \* number of promise rejections no handler caught
    trace,       \* history: every listener / timer callback run, in order
    declHist,    \* history: "always" / "never" / "mixed" truthiness of saveUrl so far
    edits        \* number of edits made without an event

vars == <<autosaveForms, now, dataset, fields, timeoutId, timers, nextHandle, requests,
          unhandled, trace, declHist, edits>>

\* ---- helpers -------------------------------------------------------------
Min(a, b) == IF a <= b THEN a ELSE b

NoAttr == [k \in {} |-> ""]

Attr(u) == [k \in {"saveUrl"} |-> u]

\* form.dataset.saveUrl is a string, or undefined when the attribute is absent
HasSaveUrl(ds) == "saveUrl" \in DOMAIN ds

\* JS truthiness of form.dataset.saveUrl: undefined and "" are falsy
Declared(f) == HasSaveUrl(dataset[f]) /\ dataset[f].saveUrl # ""

\* first argument of fetch: undefined is converted to the string "undefined"
RequestUrl(f) == IF HasSaveUrl(dataset[f]) THEN dataset[f].saveUrl ELSE "undefined"

\* new FormData(form): the field values as they are when it is constructed
FormData(f) == fields[f]

\* the user typing one more character (select-all + delete after "abc")
Type(s) == IF s = "" THEN "a"
           ELSE IF s = "a" THEN "ab"
           ELSE IF s = "ab" THEN "abc"
           ELSE ""

TimersOf(f) == {t \in timers : t.form = f}

Due(f) == {t \in TimersOf(f) : t.expiry = now}

EventOps == {"input", "change"}

EventsOf(f) == {i \in DOMAIN trace : trace[i].form = f /\ trace[i].op \in EventOps}

CallsOf(f) == {i \in DOMAIN trace : trace[i].form = f /\ trace[i].op = "timeout"}

NumEvents == Cardinality({i \in DOMAIN trace : trace[i].op \in EventOps})

RequestsOf(f) == {i \in DOMAIN requests : requests[i].form = f}

\* ---- the program ---------------------------------------------------------
\* a clearTimeout that cancels nothing
clearTimeoutNoop(tm, id) == tm

\* window.clearTimeout(id): drops the pending timer with that handle, if any
clearTimeout(tm, id) == {t \in tm : t.id # id}

\* no guard at all
NoEndpointNever(f) == FALSE

\* a guard that tests only for a missing attribute (=== undefined)
NoEndpointUndefinedOnly(f) == ~HasSaveUrl(dataset[f])

\* line 7: if (!form.dataset.saveUrl) return;
NoEndpoint(f) == ~Declared(f)

\* a cancellation that comes too late for a callback that is already due
CancelledUnlessDue(f) ==
    IF timeoutId[f] # Null
    THEN {t \in timers : t.id # timeoutId[f] \/ t.expiry <= now}
    ELSE timers

\* the test inverted: if (!timeoutId) window.clearTimeout(timeoutId);
CancelledWhenNull(f) ==
    IF timeoutId[f] = Null THEN clearTimeout(timers, timeoutId[f]) ELSE timers

\* one timeoutId shared by all forms (declared outside the forEach callback)
CancelledShared(f) ==
    IF nextHandle > 1 THEN clearTimeout(timers, nextHandle - 1) ELSE timers

\* lines 10-12: if (timeoutId) window.clearTimeout(timeoutId);
Cancelled(f) == IF timeoutId[f] # Null THEN clearTimeout(timers, timeoutId[f]) ELSE timers

\* a listener that leaves a pending timer's expiry as it was (no restart)
NewTimerNoRestart(f, snap) ==
    [id |-> nextHandle, form |-> f,
     expiry |-> IF TimersOf(f) = {} THEN now + Delay
                ELSE (CHOOSE t \in TimersOf(f) : TRUE).expiry,
     seen |-> snap]

\* line 13/20: window.setTimeout(callback, 800) run at time now for form f
NewTimer(f, snap) == [id |-> nextHandle, form |-> f, expiry |-> now + Delay, seen |-> snap]

\* one handle per listener: an event clears only the timer its own kind started
scheduleSavePerKind(f, op, snap) ==
    IF NoEndpoint(f)
    THEN /\ UNCHANGED <<timeoutId, timers, nextHandle>>
         /\ trace' = Append(trace, [op |-> op, form |-> f, at |-> now,
                                    declared |-> FALSE, timer |-> Null])
    ELSE /\ timers' = {t \in timers : \A i \in DOMAIN trace :
                           (trace[i].timer = t.id /\ trace[i].form = f) => trace[i].op # op}
                      \cup {NewTimer(f, snap)}
         /\ timeoutId' = [timeoutId EXCEPT ![f] = nextHandle]
         /\ nextHandle' = nextHandle + 1
         /\ trace' = Append(trace, [op |-> op, form |-> f, at |-> now,
                                    declared |-> TRUE, timer |-> nextHandle])

\* the listener with the two statements swapped: the timer just set is cleared
scheduleSaveClearsNew(f, op, snap) ==
    IF NoEndpoint(f)
    THEN /\ UNCHANGED <<timeoutId, timers, nextHandle>>
         /\ trace' = Append(trace, [op |-> op, form |-> f, at |-> now,
                                    declared |-> FALSE, timer |-> Null])
    ELSE /\ timers' = clearTimeout(timers \cup {NewTimer(f, snap)}, nextHandle)
         /\ timeoutId' = [timeoutId EXCEPT ![f] = nextHandle]
         /\ nextHandle' = nextHandle + 1
         /\ trace' = Append(trace, [op |-> op, form |-> f, at |-> now,
                                    declared |-> TRUE, timer |-> nextHandle])

\* lines 6-21: the listener; snap is the field value when the listener runs
scheduleSave(f, op, snap) ==
    IF NoEndpoint(f)
    THEN /\ UNCHANGED <<timeoutId, timers, nextHandle>>
         /\ trace' = Append(trace, [op |-> op, form |-> f, at |-> now,
                                    declared |-> FALSE, timer |-> Null])
    ELSE /\ timers' = Cancelled(f) \cup {NewTimer(f, snap)}
         /\ timeoutId' = [timeoutId EXCEPT ![f] = nextHandle]
         /\ nextHandle' = nextHandle + 1
         /\ trace' = Append(trace, [op |-> op, form |-> f, at |-> now,
                                    declared |-> TRUE, timer |-> nextHandle])

\* the form serialized when the timer is scheduled instead
PayloadAtSchedule(t) == t.seen

\* lines 14-19: the body handed to fetch by the callback of timer t
Payload(t) == FormData(t.form)

\* lines 15-18: fetch(form.dataset.saveUrl, {method, headers, body})
Fetch(t) == [form |-> t.form, url |-> RequestUrl(t.form), method |-> "POST",
             xrw |-> "fetch", body |-> Payload(t), at |-> now,
             timer |-> t.id, seen |-> t.seen, state |-> "inflight", done |-> -1]

\* request i settles; done records how many handler runs preceded it (history)
Settled(i, outcome) == [requests EXCEPT ![i].state = outcome, ![i].done = Len(trace)]

\* a rejection nothing catches: the browser reports an unhandled rejection
NoCatch(i) == /\ unhandled' = unhandled + 1
              /\ requests' = Settled(i, "failed")

\* a rejection handler that sends the same request again
CatchRetry(i) ==
    /\ unhandled' = unhandled
    /\ requests' = Append(Settled(i, "failed"),
                          [requests[i] EXCEPT !.at = now, !.state = "inflight"])

\* line 19: .catch(() => {}) -- what a rejection of request i does
Catch(i) == /\ unhandled' = unhandled
            /\ requests' = Settled(i, "failed")

\* ---- initial state -------------------------------------------------------
\* lines 1-4, 23-24: the state once the script has run over the page's forms
Loaded(forms, attrs) ==
    /\ autosaveForms = forms
    /\ now = 0
    /\ dataset \in [forms -> attrs]
    /\ fields = [f \in forms |-> ""]
    /\ timeoutId = [f \in forms |-> Null]
    /\ timers = {}
    /\ nextHandle = 1
    /\ requests = <<>>
    /\ unhandled = 0
    /\ trace = <<>>
    /\ declHist = [f \in forms |-> IF Declared(f) THEN "always" ELSE "never"]
    /\ edits = 0

\* a page with one autosave form, with or without (or with an empty) data-save-url
Init == Loaded({1}, {NoAttr, Attr(""), Attr("/save/1")})

\* a page with two autosave forms, each declaring an endpoint
InitForms == Loaded(AllForms, {Attr("/save/1"), Attr("/save/2")})

\* ---- actions -------------------------------------------------------------
\* the user types a character: the field changes and "input" is dispatched
Input(f) ==
    /\ NumEvents < MaxEvents
    /\ fields' = [fields EXCEPT ![f] = Type(fields[f])]
    /\ scheduleSave(f, "input", Type(fields[f]))
    /\ UNCHANGED <<autosaveForms, now, dataset, requests, unhandled, declHist, edits>>

\* the field is committed (blur, enter): "change" is dispatched
Change(f) ==
    /\ NumEvents < MaxEvents
    /\ scheduleSave(f, "change", fields[f])
    /\ UNCHANGED <<autosaveForms, now, dataset, fields, requests, unhandled, declHist, edits>>

\* a script assigns the field's value: no event is dispatched
SetField(f, v) ==
    /\ edits < MaxEdits
    /\ v # fields[f]
    /\ fields' = [fields EXCEPT ![f] = v]
    /\ edits' = edits + 1
    /\ UNCHANGED <<autosaveForms, now, dataset, timeoutId, timers, nextHandle, requests,
                   unhandled, trace, declHist>>

NextHist(h, truthy) ==
    IF (h = "always" /\ truthy) \/ (h = "never" /\ ~truthy) THEN h ELSE "mixed"

\* a script sets data-save-url
SetSaveUrl(f, u) ==
    /\ edits < MaxEdits
    /\ dataset[f] # Attr(u)
    /\ dataset' = [dataset EXCEPT ![f] = Attr(u)]
    /\ declHist' = [declHist EXCEPT ![f] = NextHist(declHist[f], u # "")]
    /\ edits' = edits + 1
    /\ UNCHANGED <<autosaveForms, now, fields, timeoutId, timers, nextHandle, requests,
                   unhandled, trace>>

\* a script removes data-save-url
RemoveSaveUrl(f) ==
    /\ edits < MaxEdits
    /\ HasSaveUrl(dataset[f])
    /\ dataset' = [dataset EXCEPT ![f] = NoAttr]
    /\ declHist' = [declHist EXCEPT ![f] = NextHist(declHist[f], FALSE)]
    /\ edits' = edits + 1
    /\ UNCHANGED <<autosaveForms, now, fields, timeoutId, timers, nextHandle, requests,
                   unhandled, trace>>

\* a callback that resets the handle: timeoutId = null
TimeoutResetsHandle(f) ==
    \E t \in Due(f) :
        /\ timers' = timers \ {t}
        /\ timeoutId' = [timeoutId EXCEPT ![f] = Null]
        /\ requests' = Append(requests, Fetch(t))
        /\ trace' = Append(trace, [op |-> "timeout", form |-> f, at |-> now,
                                   declared |-> Declared(f), timer |-> t.id])
        /\ UNCHANGED <<autosaveForms, now, dataset, fields, nextHandle, unhandled,
                       declHist, edits>>

\* a callback that waits for the form's earlier sends to settle (sends serialized)
TimeoutAwaits(f) ==
    \E t \in Due(f) :
        /\ \A n \in RequestsOf(f) : requests[n].state # "inflight"
        /\ timers' = timers \ {t}
        /\ requests' = Append(requests, Fetch(t))
        /\ trace' = Append(trace, [op |-> "timeout", form |-> f, at |-> now,
                                   declared |-> Declared(f), timer |-> t.id])
        /\ UNCHANGED <<autosaveForms, now, dataset, fields, timeoutId, nextHandle, unhandled,
                       declHist, edits>>

\* setInterval in place of setTimeout: the timer is armed again when it fires
TimeoutInterval(f) ==
    \E t \in Due(f) :
        /\ timers' = (timers \ {t}) \cup {[t EXCEPT !.expiry = now + Delay]}
        /\ requests' = Append(requests, Fetch(t))
        /\ trace' = Append(trace, [op |-> "timeout", form |-> f, at |-> now,
                                   declared |-> Declared(f), timer |-> t.id])
        /\ UNCHANGED <<autosaveForms, now, dataset, fields, timeoutId, nextHandle, unhandled,
                       declHist, edits>>

\* lines 13-20: the callback of a due timer of form f runs (the timer is one-shot;
\* timeoutId keeps the handle)
Timeout(f) ==
    \E t \in Due(f) :
        /\ timers' = timers \ {t}
        /\ requests' = Append(requests, Fetch(t))
        /\ trace' = Append(trace, [op |-> "timeout", form |-> f, at |-> now,
                                   declared |-> Declared(f), timer |-> t.id])
        /\ UNCHANGED <<autosaveForms, now, dataset, fields, timeoutId, nextHandle, unhandled,
                       declHist, edits>>

\* the fetch promise of request i is fulfilled (any status): nothing is attached to it
Resolve(i) ==
    /\ requests[i].state = "inflight"
    /\ requests' = Settled(i, "ok")
    /\ UNCHANGED <<autosaveForms, now, dataset, fields, timeoutId, timers, nextHandle,
                   unhandled, trace, declHist, edits>>

\* the fetch promise of request i is rejected (transport failure)
Reject(i) ==
    /\ requests[i].state = "inflight"
    /\ Catch(i)
    /\ UNCHANGED <<autosaveForms, now, dataset, fields, timeoutId, timers, nextHandle,
                   trace, declHist, edits>>

NextExpiry == IF timers = {} THEN MaxTime
              ELSE CHOOSE e \in {t.expiry : t \in timers} :
                       \A t \in timers : e <= t.expiry

\* the clock moves, never past a pending timer's expiry
Advance ==
    /\ \A t \in timers : t.expiry > now
    /\ now < MaxTime
    /\ now' = Min(Min(now + Tick, NextExpiry), MaxTime)
    /\ UNCHANGED <<autosaveForms, dataset, fields, timeoutId, timers, nextHandle,
                   requests, unhandled, trace, declHist, edits>>

Next ==
    \/ \E f \in autosaveForms : Input(f)
    \/ \E f \in autosaveForms : Change(f)
    \/ \E f \in autosaveForms, v \in ScriptValues : SetField(f, v)
    \/ \E f \in autosaveForms, u \in AttrValues : SetSaveUrl(f, u)
    \/ \E f \in autosaveForms : RemoveSaveUrl(f)
    \/ \E f \in autosaveForms : Timeout(f)
    \/ \E i \in DOMAIN requests : Resolve(i)
    \/ \E i \in DOMAIN requests : Reject(i)
    \/ Advance

Spec == Init /\ [][Next]_vars

\* two forms that keep the endpoints they declare; fields change by typing only
NextForms ==
    \/ \E f \in autosaveForms : Input(f)
    \/ \E f \in autosaveForms : Change(f)
    \/ \E f \in autosaveForms : Timeout(f)
    \/ \E i \in DOMAIN requests : Resolve(i)
    \/ \E i \in DOMAIN requests : Reject(i)
    \/ Advance

SpecForms == InitForms /\ [][NextForms]_vars

\* ---- the page left alone before the horizon --------------------------------
\* the last events are dispatched early enough for their timers to expire
\* within the horizon of the clock; fields change by typing only
InTime == now + Delay <= MaxTime

NextLive ==
    \/ \E f \in autosaveForms : InTime /\ Input(f)
    \/ \E f \in autosaveForms : InTime /\ Change(f)
    \/ \E f \in autosaveForms, u \in AttrValues : SetSaveUrl(f, u)
    \/ \E f \in autosaveForms : RemoveSaveUrl(f)
    \/ \E f \in autosaveForms : Timeout(f)
    \/ \E i \in DOMAIN requests : Resolve(i)
    \/ \E i \in DOMAIN requests : Reject(i)
    \/ Advance

\* the event loop runs every due timer callback, and time passes
SpecLive ==
    /\ Init
    /\ [][NextLive]_vars
    /\ \A f \in AllForms : WF_vars(Timeout(f))
    /\ WF_vars(Advance)

\* ---- history read-outs ---------------------------------------------------
\* j is the first event of form f after event i
NextEvent(f, i, j) ==
    /\ i \in EventsOf(f) /\ j \in EventsOf(f) /\ i < j
    /\ \A k \in EventsOf(f) : ~(i < k /\ k < j)

LastEvent(f, i) == i \in EventsOf(f) /\ \A k \in EventsOf(f) : k <= i

CallsBetween(f, i, j) == {k \in CallsOf(f) : i < k /\ k < j}

CallsAfter(f, i) == {k \in CallsOf(f) : i < k}

Gap(i, j) == trace[j].at - trace[i].at

\* every callback run issued one request, and every request comes from one
CallsAreRequests(f) ==
    /\ Cardinality(RequestsOf(f)) = Cardinality(CallsOf(f))
    /\ \A k \in CallsOf(f) : \E n \in RequestsOf(f) :
           requests[n].timer = trace[k].timer /\ requests[n].at = trace[k].at

\* every call of f is issued Delay ms after the last event of f handled before it
CallsFollowLastEvent(f) ==
    \A k \in CallsOf(f) : \E i \in EventsOf(f) :
        /\ i < k
        /\ \A j \in EventsOf(f) : ~(i < j /\ j < k)
        /\ trace[k].at = trace[i].at + Delay

\* after the last event of f: at most one call, and one once its time is past
TrailingBurst(f) ==
    \A i \in EventsOf(f) : LastEvent(f, i) =>
        /\ Cardinality(CallsAfter(f, i)) <= 1
        /\ now > trace[i].at + Delay => Cardinality(CallsAfter(f, i)) = 1

\* ---- C1 ------------------------------------------------------------------
\* C1 as stated: for a form whose endpoint is declared throughout, events less
\* than Delay ms apart belong to one burst; every burst yields exactly one
\* call, Delay ms after its last event (so two consecutive events Delay ms or
\* more apart have exactly one call between them).
C1_AsStated ==
    \A f \in autosaveForms : declHist[f] = "always" =>
        /\ CallsAreRequests(f)
        /\ CallsFollowLastEvent(f)
        /\ TrailingBurst(f)
        /\ \A i, j \in EventsOf(f) : NextEvent(f, i, j) =>
               /\ Gap(i, j) < Delay => CallsBetween(f, i, j) = {}
               /\ Gap(i, j) >= Delay => Cardinality(CallsBetween(f, i, j)) = 1

\* C1 amended: an event handled exactly Delay ms after the previous one, ahead
\* of the due callback, still extends the burst; otherwise as stated: no call
\* inside a burst, exactly one call per burst, Delay ms after its last event.
C1_Debounce ==
    \A f \in autosaveForms : declHist[f] = "always" =>
        /\ CallsAreRequests(f)
        /\ CallsFollowLastEvent(f)
        /\ TrailingBurst(f)
        /\ \A i, j \in EventsOf(f) : NextEvent(f, i, j) =>
               /\ Gap(i, j) < Delay => CallsBetween(f, i, j) = {}
               /\ Gap(i, j) = Delay => Cardinality(CallsBetween(f, i, j)) <= 1
               /\ Gap(i, j) > Delay => Cardinality(CallsBetween(f, i, j)) = 1

\* a burst of two events 0 < gap < Delay apart has produced its single call
C1_Witness ==
    \E f \in autosaveForms : declHist[f] = "always" /\
        \E i, j \in EventsOf(f), k \in CallsOf(f) :
            /\ NextEvent(f, i, j) /\ Gap(i, j) > 0 /\ Gap(i, j) < Delay
            /\ j < k /\ trace[k].at = trace[j].at + Delay
            /\ Cardinality(CallsOf(f)) = 1

\* ---- steps, read from the history --------------------------------------
Last(q) == q[Len(q)]

\* this step ran a listener of form f
EventStep(f) ==
    /\ Len(trace') = Len(trace) + 1
    /\ Last(trace').op \in EventOps
    /\ Last(trace').form = f

\* this step ran a listener or a timer callback of form f, or settled one of its requests
Acts(f) ==
    \/ Len(trace') = Len(trace) + 1 /\ Last(trace').form = f
    \/ \E n \in RequestsOf(f) : requests'[n].state # requests[n].state

NewRequests == {requests'[n] : n \in (DOMAIN requests') \ (DOMAIN requests)}

DeclaredEventsOf(f) == {i \in EventsOf(f) : trace[i].declared}

\* the timer event i of form f created was cancelled or is still pending: it never fired
NeverFired(f, i) == \A k \in CallsOf(f) : trace[k].timer # trace[i].timer

\* ---- C2 ------------------------------------------------------------------
\* C2: a form that has never declared an endpoint has issued no call and has
\* never had a timer, whatever events it received.
C2_Inert ==
    \A f \in autosaveForms : declHist[f] = "never" =>
        /\ RequestsOf(f) = {} /\ CallsOf(f) = {}
        /\ TimersOf(f) = {} /\ timeoutId[f] = Null

\* such a form has received an input and a change event
C2_Witness ==
    \E f \in autosaveForms : declHist[f] = "never" /\
        \E i, j \in EventsOf(f) : trace[i].op = "input" /\ trace[j].op = "change"

\* ---- C3 ------------------------------------------------------------------
\* C3: the body of every call is the form's field value in the state in which
\* the timer callback runs.
C3_PayloadAtFire ==
    [][\A r \in NewRequests : r.body = fields[r.form]]_vars

\* a call whose body differs from the value the field had when its timer was
\* scheduled (the field changed after the last event, before expiry)
C3_Witness == \E n \in DOMAIN requests : requests[n].body # requests[n].seen

\* ---- C4 ------------------------------------------------------------------
\* C4: every form has at most one pending timer.
C4_OneTimer == \A f \in autosaveForms : Cardinality(TimersOf(f)) <= 1

\* a second event arrived while the first one's timer was pending
C4_Witness ==
    \E f \in autosaveForms : \E i, j \in DeclaredEventsOf(f) :
        /\ NextEvent(f, i, j) /\ CallsOf(f) = {}
        /\ Cardinality(TimersOf(f)) = 1

\* ---- C5 ------------------------------------------------------------------
FormView(g) == <<timeoutId[g], TimersOf(g), SelectSeq(requests, LAMBDA r : r.form = g),
                 fields[g], dataset[g]>>

\* C5: a step of one form (event, expiry, completion of a call) leaves the
\* other form's handle, pending timer, expiry and calls unchanged; a call goes
\* to the endpoint of the form whose timer fired, with that form's fields.
C5_NoInterference ==
    [][/\ \A f, g \in autosaveForms : Acts(f) /\ Acts(g) => f = g
       /\ \A g \in autosaveForms : Acts(g) \/ FormView(g)' = FormView(g)
       /\ \A r \in NewRequests : \E t \in timers :
             /\ t.id = r.timer /\ t.form = r.form /\ t.expiry = now
             /\ t \notin timers'
             /\ r.method = "POST"
             /\ r.url = dataset[r.form].saveUrl
             /\ r.body = fields[r.form]]_vars

\* both forms have saved, at different times, each to its own endpoint with
\* its own value
C5_Witness ==
    \E n, m \in DOMAIN requests :
        /\ requests[n].form = 1 /\ requests[n].url = "/save/1"
        /\ requests[m].form = 2 /\ requests[m].url = "/save/2"
        /\ requests[n].body # requests[m].body
        /\ requests[n].at # requests[m].at

\* ---- C6 ------------------------------------------------------------------
\* the timer armed by declared event i of form f is pending for Delay ms after
\* the event, or was replaced by a later event's timer, or fired Delay ms after
\* the event and issued a call
Served(f, i) ==
    \/ /\ NeverFired(f, i)
       /\ timeoutId[f] = trace[i].timer
       /\ \E t \in TimersOf(f) :
             t.id = trace[i].timer /\ t.expiry = trace[i].at + Delay /\ now <= t.expiry
    \/ /\ NeverFired(f, i)
       /\ \A t \in timers : t.id # trace[i].timer
       /\ \E j \in DeclaredEventsOf(f) : i < j
    \/ /\ \A t \in timers : t.id # trace[i].timer
       /\ \E k \in CallsOf(f) :
             i < k /\ trace[k].timer = trace[i].timer /\ trace[k].at = trace[i].at + Delay
       /\ \E n \in RequestsOf(f) :
             requests[n].timer = trace[i].timer /\ requests[n].at = trace[i].at + Delay

FailedOf(f) == {n \in RequestsOf(f) : requests[n].state = "failed"}

\* C6: no rejection goes unhandled, and every event on a form with an endpoint
\* handled after one of the form's sends has failed arms a timer that fires
\* Delay ms later and issues a call, unless a later event replaces it.
C6_FailureSwallowed ==
    /\ unhandled = 0
    /\ \A f \in autosaveForms : \A n \in FailedOf(f) : \A i \in DeclaredEventsOf(f) :
           i > requests[n].done => Served(f, i)

\* a send failed, a later event was handled, and its call was issued Delay ms after it
C6_Witness ==
    \E f \in autosaveForms : \E n \in FailedOf(f), i \in DeclaredEventsOf(f), m \in RequestsOf(f) :
        /\ i > requests[n].done
        /\ requests[m].timer = trace[i].timer
        /\ requests[m].at = trace[i].at + Delay

\* ---- C7 ------------------------------------------------------------------
\* C7: every call of a form comes from the timer of one declared event of the
\* form, no two calls from the same one: the calls never outnumber the events
\* handled while an endpoint was declared, whatever became of earlier sends.
C7_NoRetry ==
    \A f \in autosaveForms :
        /\ Cardinality(RequestsOf(f)) <= Cardinality(DeclaredEventsOf(f))
        /\ \A n \in RequestsOf(f) : \E i \in DeclaredEventsOf(f) :
               trace[i].timer = requests[n].timer
        /\ \A n, m \in RequestsOf(f) : requests[n].timer = requests[m].timer => n = m

\* a send failed, time has passed, and it is still the form's only call
C7_Witness ==
    \E f \in autosaveForms : \E n \in FailedOf(f) :
        /\ now > requests[n].at
        /\ RequestsOf(f) = {n}
        /\ TimersOf(f) = {}

\* ---- C8 ------------------------------------------------------------------
\* C8 as stated: every call is a POST to an endpoint the form declares when the
\* call is issued (the attribute is present and not empty).
C8_AsStated ==
    \A n \in DOMAIN requests :
        /\ requests[n].method = "POST"
        /\ requests[n].url \notin {"", "undefined"}
        /\ \E k \in CallsOf(requests[n].form) :
               trace[k].timer = requests[n].timer /\ trace[k].declared

\* ---- C9 ------------------------------------------------------------------
\* C9 as stated: a timer that was pending when a later event of its form was
\* handled never fires, whether or not the form declared an endpoint then.
C9_AsStated ==
    \A f \in autosaveForms : \A k \in CallsOf(f) : \A i, j \in EventsOf(f) :
        (trace[i].timer = trace[k].timer /\ i < j) => k < j

\* C9 amended: a timer that was pending when a later event of its form was
\* handled while the form declared an endpoint never fires; an event handled
\* while the form declares no endpoint leaves the pending timer in place.
C9_CancelledByDeclaredEvent ==
    \A f \in autosaveForms : \A k \in CallsOf(f) : \A i \in EventsOf(f) :
        \A j \in DeclaredEventsOf(f) :
            (trace[i].timer = trace[k].timer /\ i < j) => k < j

\* an event replaced a pending timer, whose time has passed without a call
C9_Witness ==
    \E f \in autosaveForms : \E i, j \in DeclaredEventsOf(f) :
        /\ i < j /\ Gap(i, j) < Delay
        /\ now > trace[i].at + Delay
        /\ NeverFired(f, i)

\* ---- C10 -----------------------------------------------------------------
\* C10: a listener run while the form declares no endpoint changes no timer,
\* no handle and no call.
C10_NoEndpointNoEffect ==
    [][\A f \in autosaveForms : (EventStep(f) /\ ~Declared(f)) =>
           /\ timers' = timers
           /\ timeoutId' = timeoutId
           /\ nextHandle' = nextHandle
           /\ requests' = requests]_vars

\* the last handler run was a listener of a form without endpoint whose
\* earlier timer is still pending
C10_Witness ==
    /\ trace # <<>>
    /\ Last(trace).op \in EventOps
    /\ ~Last(trace).declared
    /\ TimersOf(Last(trace).form) # {}

\* ---- C11 -----------------------------------------------------------------
\* form f has handled an event with an endpoint declared and has issued no call since
Unsaved(f) == \E i \in DeclaredEventsOf(f) : CallsAfter(f, i) = {}

\* C11: when the due timer callbacks run and time passes, every event handled
\* while the form declares an endpoint is followed by a call of the form.
C11_EventuallySaved ==
    \A f \in AllForms : Unsaved(f) ~> ~Unsaved(f)

\* the events have stopped and the last of them, a second one inside the
\* quiet period of the first, has been followed by its call
C11_Witness ==
    \E f \in autosaveForms : \E i, j \in DeclaredEventsOf(f) :
        /\ NextEvent(f, i, j) /\ LastEvent(f, j)
        /\ NumEvents = MaxEvents
        /\ CallsBetween(f, i, j) = {}
        /\ CallsAfter(f, j) # {}

\* ---- C12 -----------------------------------------------------------------
\* C12: between any two calls of a form an event of the form was handled, and
\* the two calls are at least Delay ms apart.
C12_OncePerQuietPeriod ==
    \A f \in autosaveForms : \A k, l \in CallsOf(f) : k < l =>
        /\ \E i \in EventsOf(f) : k < i /\ i < l
        /\ trace[l].at - trace[k].at >= Delay

\* a form has called twice
C12_Witness ==
    \E f \in autosaveForms : \E k, l \in CallsOf(f) :
        k < l /\ trace[l].timer # trace[k].timer

\* ---- C13 -----------------------------------------------------------------
\* C13: of two events of different kinds handled while the form declares an
\* endpoint, the later one cancels the timer of the earlier one; when they are
\* less than Delay ms apart no call lies between them, and at most one call
\* follows the last event of the form whatever the kinds before it.
C13_OneTimerForBothKinds ==
    \A f \in autosaveForms :
        /\ \A i, j \in DeclaredEventsOf(f) : (i < j /\ trace[i].op # trace[j].op) =>
               /\ \A k \in CallsOf(f) : trace[k].timer = trace[i].timer => k < j
               /\ Gap(i, j) < Delay => CallsBetween(f, i, j) = {}
        /\ \A j \in DeclaredEventsOf(f) : LastEvent(f, j) =>
               Cardinality(CallsAfter(f, j)) <= 1

\* an input and, inside its quiet period, a change; one call, after the change
C13_Witness ==
    \E f \in autosaveForms : \E i, j \in DeclaredEventsOf(f) :
        /\ NextEvent(f, i, j)
        /\ trace[i].op = "input" /\ trace[j].op = "change"
        /\ Gap(i, j) > 0 /\ Gap(i, j) < Delay
        /\ Cardinality(CallsOf(f)) = 1
        /\ \E k \in CallsOf(f) : j < k /\ trace[k].at = trace[j].at + Delay

\* ---- C14 -----------------------------------------------------------------
\* this step settled a request (fulfilled or rejected)
SettleStep ==
    \E n \in DOMAIN requests :
        requests[n].state = "inflight" /\ requests'[n].state # "inflight"

InFlight(f) == {n \in RequestsOf(f) : requests[n].state = "inflight"}

\* C14: a due timer callback can run, and issues its call, whatever the state
\* of the form's earlier calls; the settlement of a call, whenever and however
\* it comes, changes no timer, no handle and no other call.
C14_SendsNotAwaited ==
    [][/\ \A f \in autosaveForms : Due(f) # {} => ENABLED Timeout(f)
       /\ \A f \in autosaveForms : \A r \in NewRequests :
             r.form = f => requests' = Append(requests, r) /\ r.state = "inflight"
       /\ SettleStep =>
             /\ UNCHANGED <<timers, timeoutId, nextHandle, trace, fields, dataset>>
             /\ Len(requests') = Len(requests)
             /\ \A n, m \in DOMAIN requests :
                    (requests'[n] # requests[n] /\ requests'[m] # requests[m]) => n = m]_vars

\* two calls of a form were in flight at once, and the later one has settled
\* while the earlier one is still in flight
C14_Witness ==
    \E f \in autosaveForms : \E n \in InFlight(f), m \in RequestsOf(f) :
        n < m /\ requests[m].state # "inflight"

\* ---- C15 -----------------------------------------------------------------
\* this step ran the timer callback of form f
TimeoutStep(f) ==
    /\ Len(trace') = Len(trace) + 1
    /\ Last(trace').op = "timeout"
    /\ Last(trace').form = f

\* C15: a listener run with an endpoint declared leaves exactly the timer it
\* starts pending for the form, in one step (no callback of the form runs in
\* between); when it runs while the earlier timer is due, that timer issues
\* no call afterwards: either its callback ran before the listener, or never.
C15_CancelRescheduleAtomic ==
    [][\A f \in autosaveForms :
          /\ (EventStep(f) /\ Declared(f)) =>
                /\ TimersOf(f)' = {NewTimer(f, fields'[f])}
                /\ Len(requests') = Len(requests)
          /\ TimeoutStep(f) =>
                /\ Last(trace').timer = timeoutId[f]
                /\ \E t \in Due(f) : t.id = timeoutId[f] /\ TimersOf(f)' = {}]_vars

\* a listener ran while the form's timer was due, ahead of the callback: the
\* due timer never fired and the new one has, Delay ms later
C15_Witness ==
    \E f \in autosaveForms : \E i, j \in DeclaredEventsOf(f) :
        /\ NextEvent(f, i, j) /\ Gap(i, j) = Delay
        /\ CallsBetween(f, i, j) = {}
        /\ NeverFired(f, i)
        /\ \E k \in CallsOf(f) : trace[k].timer = trace[j].timer

\* ---- C16 -----------------------------------------------------------------
\* form f holds the handle of a timer that is no longer pending
Stale(f) == timeoutId[f] # Null /\ \A t \in timers : t.id # timeoutId[f]

\* C16: the callback leaves the form's handle as it is, the handle of the timer
\* that just fired; a listener that finds such a stale handle cancels no timer
\* and starts a fresh one under a new handle, due Delay ms later.
C16_StaleHandleHarmless ==
    [][\A f \in autosaveForms :
          /\ TimeoutStep(f) =>
                /\ timeoutId' = timeoutId
                /\ Last(trace').timer = timeoutId[f] => Stale(f)'
          /\ (EventStep(f) /\ Declared(f) /\ Stale(f)) =>
                /\ timers' = timers \cup {NewTimer(f, fields'[f])}
                /\ timeoutId'[f] # timeoutId[f]
                /\ \A t \in timers : t.id # timeoutId'[f]
                /\ ~Stale(f)']_vars

\* the cycle has run twice: a call, an event that found the stale handle, and
\* the call of the timer that event started
C16_Witness ==
    \E f \in autosaveForms : \E k, l \in CallsOf(f), j \in DeclaredEventsOf(f) :
        /\ k < j /\ j < l
        /\ trace[l].timer = trace[j].timer
        /\ Stale(f)

TypeOK ==
    /\ now \in 0..MaxTime
    /\ \A f \in autosaveForms : timeoutId[f] \in 0..(nextHandle - 1)
    /\ \A t \in timers : t.id \in 1..(nextHandle - 1) /\ t.form \in autosaveForms
    /\ unhandled \in Nat
====
